---------------------------- MODULE Spec2Model ----------------------------
(***************************************************************************)
(* The M-Bus proxy: the supervisor loop of mbus-proxy/src/main.rs and the  *)
(* three-port multiplexer of mbus-proxy/src/multiplexer.rs, over three     *)
(* framed streams (external_master, wmbusmeters, heater) and a             *)
(* cancellation token.  Frames are the values of mbus::Frame.              *)
(*                                                                         *)
(* Three specifications share the module.  Spec is the proxy.  ParserSpec  *)
(* applies the frame library (mbus: to_bytes, try_parse) to bounded        *)
(* inputs.  CodecSpec runs the two MbusCodec decoders (mbus-codec,         *)
(* mbus-proxy) over byte streams that arrive in reads of any sizes.  Each  *)
(* leaves the variables of the other two at their initial values.          *)
(***************************************************************************)
EXTENDS Integers, Sequences, FiniteSets, TLC

(***************************************************************************)
(* Bounds of the model.                                                    *)
(***************************************************************************)
\* Frames the two upstream peers put on their streams, in total.
MaxArrivals == 2

(***************************************************************************)
(* Program constants.                                                      *)
(***************************************************************************)
SND_NKE == 64
REQ_UD2 == 123
\* The two addresses multiplex_single_op accepts (0x9A and 0x0).
HEATER_ADDR == 154
ZERO_ADDR == 0
\* 0xFD: an address a peer may use that multiplex_single_op does not name.
WMBUS_PROXY_ADDR == 15 * 16 + 13

external_master == "external_master"
wmbusmeters == "wmbusmeters"
heater == "heater"
Ports == {external_master, wmbusmeters, heater}
Upstream == {external_master, wmbusmeters}

(***************************************************************************)
(* mbus::Frame.  Fields a shape does not carry are 0 / <<>>.               *)
(***************************************************************************)
Single == [kind |-> "Single", control |-> 0, address |-> 0,
           control_information |-> 0, data |-> <<>>]
Short(c, a) == [kind |-> "Short", control |-> c, address |-> a,
                control_information |-> 0, data |-> <<>>]
Control(c, a, ci) == [kind |-> "Control", control |-> c, address |-> a,
                      control_information |-> ci, data |-> <<>>]
Long(c, a, ci, d) == [kind |-> "Long", control |-> c, address |-> a,
                      control_information |-> ci, data |-> d]

\* What a stream yields in place of a frame when the transport read fails or
\* the codec reports a protocol error: Some(Err(std::io::Error)).
IoError == [kind |-> "IoError", control |-> 0, address |-> 0,
            control_information |-> 0, data |-> <<>>]

\* The frames the upstream peers send in this model.
UpstreamFrames ==
    { Short(SND_NKE, ZERO_ADDR),
      Short(REQ_UD2, HEATER_ADDR),
      Short(REQ_UD2, ZERO_ADDR),
      Short(REQ_UD2, WMBUS_PROXY_ADDR),
      Control(SND_NKE, HEATER_ADDR, 81),
      Single,
      IoError }

\* What the heater, an M-Bus slave, answers to a frame when it answers: an
\* acknowledgement to SND_NKE, user data to anything else.
HeaterAnswer(req) ==
    IF req.control = SND_NKE THEN Single
    ELSE Long(8, HEATER_ADDR, 0, <<202, 254>>)

\* An item of a stream: the frame, and for a heater item the index (in the
\* frames written to the heater) of the request it answers; 0 otherwise.
Item(f, re) == [frame |-> f, re |-> re]

VARIABLES
    pc,         \* where main is: "start", "loop", "select", "wait",
                \* "exit_ok", "exit_err", "panic"
    cancelled,  \* the CancellationToken
    inq,        \* per port: the items its stream will yield, oldest first
    heater_eof, \* the heater's transport reported end of stream
    out,        \* per port: the frames written to its sink, oldest first
    answered,   \* how many of the frames written to the heater it has handled
    received,   \* the requests whose answer the proxy has read from the heater
    arrivals,   \* upstream items put on the streams so far
    step        \* the multiplex_single_op call in progress, or the last one

main_vars == <<pc, cancelled, inq, heater_eof, out, answered, received, arrivals, step>>

\* The state of the frame library under test (mbus): a frame is serialized, or
\* a byte string is taken as it is; the bytes may be damaged; they are parsed.
VARIABLES
    tx,         \* the Frame handed to to_bytes, or NoFrame
    input,      \* the bytes handed to try_parse
    made,       \* how input was made: [by, at]
    stage,      \* "idle", "frame", "ready", "parsed"
    outcome,    \* what try_parse(input) returned
    prior       \* what try_parse returned before a suffix was appended

parser_vars == <<tx, input, made, stage, outcome, prior>>

\* The state of a framed stream that decodes with MbusCodec.
VARIABLES
    codec,        \* the crate whose MbusCodec decodes: "mbus-codec" or "mbus-proxy"
    stream,       \* all the bytes the transport will deliver
    arrived,      \* how many of them have been read into src
    src,          \* the read buffer (BytesMut): bytes read and not yet advanced over
    needed_bytes, \* the field of mbus-codec's MbusCodec
    is_readable,  \* decode has not yet returned None for what src holds
    yielded,      \* the frames decode has returned, oldest first
    decode_error  \* the kind of the error decode returned, or "none"

codec_vars == <<codec, stream, arrived, src, needed_bytes, is_readable, yielded,
                decode_error>>

\* What the multiplexer's actions leave alone.
library_vars == <<parser_vars, codec_vars>>

vars == <<main_vars, library_vars>>

NoWrites == [p \in Ports |-> <<>>]

\* Stands for "no frame" in the record of a call.
NoFrame == [kind |-> "None", control |-> 0, address |-> 0,
            control_information |-> 0, data |-> <<>>]

\* The record of one multiplex_single_op call.
NewStep == [ready    |-> {},          \* the events ready when select! chose
            branch   |-> "none",      \* the branch select! took
            frame    |-> NoFrame,     \* the frame the branch consumed
            consumed |-> {},          \* the ports an item was taken from
            written  |-> NoWrites,    \* the frames this call wrote, per port
            response |-> NoFrame,     \* the frame forward_frame read from the heater
            atCancel |-> "none",      \* where main was when the token was cancelled
            result   |-> "running",   \* "running", "ok", "err", "panic"
            prevBoth |-> FALSE,       \* the call before this one had a frame ready
                                      \* on both upstream ports,
            prevBranch |-> "none"]    \* and the branch it took

\* main before its first step.
MainInit ==
    /\ pc = "start"
    /\ cancelled = FALSE
    /\ inq = [p \in Ports |-> <<>>]
    /\ heater_eof = FALSE
    /\ out = [p \in Ports |-> <<>>]
    /\ answered = 0
    /\ received = {}
    /\ arrivals = 0
    /\ step = NewStep

\* No result yet.
NotParsed == [variant |-> "None", bytes_read |-> 0, frame |-> NoFrame,
              kind |-> "none", needed |-> 0]

\* The frame library is not exercised.
ParserIdle ==
    /\ tx = NoFrame
    /\ input = <<>>
    /\ made = [by |-> "none", at |-> 0]
    /\ stage = "idle"
    /\ outcome = NotParsed
    /\ prior = NotParsed

\* No framed stream is decoded.
CodecIdle ==
    /\ codec = "idle"
    /\ stream = <<>>
    /\ arrived = 0
    /\ src = <<>>
    /\ needed_bytes = 0
    /\ is_readable = FALSE
    /\ yielded = <<>>
    /\ decode_error = "none"

Init == MainInit /\ ParserIdle /\ CodecIdle

Running == pc \in {"start", "loop", "select", "wait"}

Append1(q, p, x) == [q EXCEPT ![p] = Append(@, x)]

(***************************************************************************)
(* The supervisor: main.                                                   *)
(***************************************************************************)
\* "Initializing all slaves": one SND_NKE to address 0 is sent to the heater
\* and no answer is awaited.
Startup ==
    /\ pc = "start"
    /\ out' = Append1(out, heater, Short(SND_NKE, ZERO_ADDR))
    /\ pc' = "loop"
    /\ UNCHANGED <<cancelled, inq, heater_eof, answered, received, arrivals, step,
                   library_vars>>

\* while !token.is_cancelled() { multiplex_single_op(..).await?; }  Ok(())
LoopCheck ==
    /\ pc = "loop"
    /\ IF cancelled
         THEN pc' = "exit_ok" /\ step' = step
         ELSE /\ pc' = "select"
              /\ step' = [NewStep EXCEPT !.prevBoth = Upstream \subseteq step.ready,
                                         !.prevBranch = step.branch]
    /\ UNCHANGED <<cancelled, inq, heater_eof, out, answered, received, arrivals, library_vars>>

\* Where main goes when a call returns: Ok goes round the loop, Err leaves
\* main through the `?`.
Return(result) == IF result = "ok" THEN "loop" ELSE "exit_err"

(***************************************************************************)
(* The multiplexer: multiplex_single_op and forward_frame.                 *)
(***************************************************************************)
\* stream.next() would yield Some(..) now.
Ready(p) == inq[p] # <<>>

\* The events that are ready when select! polls.
ReadyEvents ==
    {p \in Ports : Ready(p)} \cup (IF cancelled THEN {"cancel"} ELSE {})

\* A select! that polls wmbusmeters before external_master.
SelectBranch_WmFirst(ready) ==
    IF wmbusmeters \in ready THEN wmbusmeters
    ELSE IF external_master \in ready THEN external_master
    ELSE IF heater \in ready THEN heater
    ELSE "cancel"

\* select! { biased; external_master, wmbusmeters, heater, token.cancelled() }
SelectBranch(ready) ==
    IF external_master \in ready THEN external_master
    ELSE IF wmbusmeters \in ready THEN wmbusmeters
    ELSE IF heater \in ready THEN heater
    ELSE "cancel"

\* A match that does not answer SND_NKE itself.
Dispatch_NoAck(frame) ==
    IF frame.kind \in {"Short", "Long", "Control"}
      THEN IF frame.address = ZERO_ADDR \/ frame.address = HEATER_ADDR
             THEN "forward"
             ELSE "ignore"
      ELSE "bail"

\* A match that does not look at the address.
Dispatch_AnyAddress(frame) ==
    IF frame.kind \in {"Short", "Long", "Control"}
      THEN IF frame.control = SND_NKE THEN "ack" ELSE "forward"
      ELSE "bail"

\* The match on a frame read from an upstream peer (the same for both).
Dispatch(frame) ==
    IF frame.kind \in {"Short", "Long", "Control"}
      THEN IF frame.address = ZERO_ADDR \/ frame.address = HEATER_ADDR
             THEN IF frame.control = SND_NKE THEN "ack" ELSE "forward"
             ELSE "ignore"
      ELSE "bail"

\* Both branches answer on external_master.
ReplyPort_Master(branch) == external_master

\* The port an answer goes to: the stream the frame was read from
\* (external_master.send / wmbusmeters.send, and the origin of forward_frame).
ReplyPort(branch) == branch

\* A forward that rewrites the request's address to the heater's.
ForwardedRequest_Rewrite(origin, frame) == [frame EXCEPT !.address = HEATER_ADDR]

\* The frame forward_frame sends to the destination for a request.
ForwardedRequest(origin, frame) == frame

\* A forward that acknowledges instead of passing the response on.
ForwardedResponse_Ack(origin, resp) == Single

\* The frame forward_frame sends to the origin for a response.
ForwardedResponse(origin, resp) == resp

\* A token branch that bails.
OnCancelled_Err == "err"

\* What the call returns when the token's branch is taken.
OnCancelled == "ok"

\* What forward_frame returns when the timeout elapses.
OnTimeout == "err"

\* The call's record after send(f) on port p.  A send is taken to succeed: the
\* transports of this model do not fail on writes.
Wrote(s, p, f) == [s.written EXCEPT ![p] = Append(@, f)]

\* One call of multiplex_single_op up to its return or, when it forwards, up
\* to the await of the heater's answer in forward_frame.
multiplex_single_op ==
    /\ pc = "select"
    /\ ReadyEvents # {}
    /\ LET ready == ReadyEvents
           b == SelectBranch(ready)
           s0 == [step EXCEPT !.ready = ready, !.branch = b]
       IN
       IF b = "cancel"
         THEN /\ step' = [s0 EXCEPT !.result = OnCancelled]
              /\ pc' = Return(OnCancelled)
              /\ UNCHANGED <<inq, out, received>>
         ELSE
           LET item == Head(inq[b])
               f == item.frame
               s1 == [s0 EXCEPT !.frame = f, !.consumed = {b}]
           IN
           /\ inq' = [inq EXCEPT ![b] = Tail(@)]
           /\ received' = IF item.re # 0 THEN received \cup {item.re} ELSE received
           /\ IF b = heater \/ f = IoError
                THEN \* a read error, or "Received unexpected frame from heater"
                     /\ step' = [s1 EXCEPT !.result = "err"]
                     /\ pc' = Return("err")
                     /\ out' = out
                ELSE
                  LET v == Dispatch(f) IN
                  CASE v = "ack" ->
                         /\ out' = Append1(out, ReplyPort(b), Single)
                         /\ step' = [s1 EXCEPT !.result = "ok",
                                               !.written = Wrote(s1, ReplyPort(b), Single)]
                         /\ pc' = Return("ok")
                    [] v = "forward" ->
                         LET g == ForwardedRequest(b, f) IN
                         /\ out' = Append1(out, heater, g)
                         /\ step' = [s1 EXCEPT !.written = Wrote(s1, heater, g)]
                         /\ pc' = "wait"
                    [] v = "ignore" ->
                         /\ out' = out
                         /\ step' = [s1 EXCEPT !.result = "ok"]
                         /\ pc' = Return("ok")
                    [] OTHER ->
                         /\ out' = out
                         /\ step' = [s1 EXCEPT !.result = "err"]
                         /\ pc' = Return("err")
    /\ UNCHANGED <<cancelled, heater_eof, answered, arrivals, library_vars>>

\* forward_frame: the heater stream yields an item within the timeout.  A frame
\* is sent on to the origin; an error is returned.
forward_frame_response ==
    /\ pc = "wait"
    /\ Ready(heater)
    /\ LET item == Head(inq[heater])
           origin == ReplyPort(step.branch)
           s1 == [step EXCEPT !.consumed = @ \cup {heater}]
       IN
       /\ inq' = [inq EXCEPT ![heater] = Tail(@)]
       /\ received' = IF item.re # 0 THEN received \cup {item.re} ELSE received
       /\ IF item.frame = IoError
            THEN /\ out' = out
                 /\ step' = [s1 EXCEPT !.result = "err"]
                 /\ pc' = Return("err")
            ELSE LET r == ForwardedResponse(origin, item.frame) IN
                 /\ out' = Append1(out, origin, r)
                 /\ step' = [s1 EXCEPT !.result = "ok", !.response = item.frame,
                                       !.written = Wrote(s1, origin, r)]
                 /\ pc' = Return("ok")
    /\ UNCHANGED <<cancelled, heater_eof, answered, arrivals, library_vars>>

\* A wait that also watches the token and returns Ok once it is cancelled.
forward_frame_timeout_Cancellable ==
    /\ pc = "wait"
    /\ ~Ready(heater)
    /\ ~heater_eof
    /\ LET r == IF cancelled THEN "ok" ELSE OnTimeout IN
       /\ step' = [step EXCEPT !.result = r]
       /\ pc' = Return(r)
    /\ UNCHANGED <<cancelled, inq, heater_eof, out, answered, received, arrivals, library_vars>>

\* forward_frame: tokio::time::timeout elapses with nothing read.
forward_frame_timeout ==
    /\ pc = "wait"
    /\ ~Ready(heater)
    /\ ~heater_eof
    /\ step' = [step EXCEPT !.result = OnTimeout]
    /\ pc' = Return(OnTimeout)
    /\ UNCHANGED <<cancelled, inq, heater_eof, out, answered, received, arrivals, library_vars>>

\* forward_frame: the heater stream ends; next() yields None and
\* `r.unwrap()` panics.
forward_frame_eof ==
    /\ pc = "wait"
    /\ ~Ready(heater)
    /\ heater_eof
    /\ step' = [step EXCEPT !.result = "panic"]
    /\ pc' = "panic"
    /\ UNCHANGED <<cancelled, inq, heater_eof, out, answered, received, arrivals, library_vars>>

(***************************************************************************)
(* The environment: the peers, the transports and SIGINT.                  *)
(***************************************************************************)
\* An upstream peer's stream gets one more item.
Arrive(p, f) ==
    /\ Running
    /\ arrivals < MaxArrivals
    /\ inq' = Append1(inq, p, Item(f, 0))
    /\ arrivals' = arrivals + 1
    /\ UNCHANGED <<pc, cancelled, heater_eof, out, answered, received, step, library_vars>>

\* The heater answers the oldest frame it has not handled yet.
HeaterAnswers ==
    /\ Running
    /\ ~heater_eof
    /\ answered < Len(out[heater])
    /\ inq' = Append1(inq, heater,
                      Item(HeaterAnswer(out[heater][answered + 1]), answered + 1))
    /\ answered' = answered + 1
    /\ UNCHANGED <<pc, cancelled, heater_eof, out, received, arrivals, step, library_vars>>

\* The heater leaves the oldest frame it has not handled yet without answer.
HeaterSilent ==
    /\ Running
    /\ answered < Len(out[heater])
    /\ answered' = answered + 1
    /\ UNCHANGED <<pc, cancelled, inq, heater_eof, out, received, arrivals, step, library_vars>>

\* The heater stream yields a transport or parse error.  Every read of an
\* error ends main, so a second error behind one not yet read is never seen.
HeaterFault ==
    /\ Running
    /\ ~heater_eof
    /\ \A i \in 1..Len(inq[heater]) : inq[heater][i].frame # IoError
    /\ inq' = Append1(inq, heater, Item(IoError, 0))
    /\ UNCHANGED <<pc, cancelled, heater_eof, out, answered, received, arrivals, step,
                   library_vars>>

\* The heater's transport reports end of stream.  (An upstream stream at its
\* end yields None, which disables its select! branch: the same as a stream
\* with nothing to read.)
HeaterClose ==
    /\ Running
    /\ ~heater_eof
    /\ heater_eof' = TRUE
    /\ UNCHANGED <<pc, cancelled, inq, out, answered, received, arrivals, step, library_vars>>

\* spawn_sigint_watcher: SIGINT cancels the token.
Cancel ==
    /\ Running
    /\ ~cancelled
    /\ cancelled' = TRUE
    /\ step' = [step EXCEPT !.atCancel = pc]
    /\ UNCHANGED <<pc, inq, heater_eof, out, answered, received, arrivals, library_vars>>

Next ==
    \/ Startup
    \/ LoopCheck
    \/ multiplex_single_op
    \/ forward_frame_response
    \/ forward_frame_timeout
    \/ forward_frame_eof
    \/ \E p \in Upstream, f \in UpstreamFrames : Arrive(p, f)
    \/ HeaterAnswers
    \/ HeaterSilent
    \/ HeaterFault
    \/ HeaterClose
    \/ Cancel

Spec == Init /\ [][Next]_vars



(***************************************************************************)
(* The frame library, mbus: checksum, serializer and parser.               *)
(***************************************************************************)
SINGLE_CHAR == 229
SHORT_START == 16
LONG_START == 104
FRAME_END == 22

\* The largest data a Long frame's one-byte length field can describe.
MaxU8Data == 255 - 3

\* The error kinds of FrameParseErrorKind; Nom(Tag) is nom's ErrorKind::Tag.
MalformedChecksum == "MalformedChecksum"
InconsistentLengthValues == "InconsistentLengthValues"
NomTag == "Nom(Tag)"

RECURSIVE wrapping_sum(_, _, _)
\* sum.wrapping_add(*b) over bytes lo..hi of bs.  Addition modulo 256 is
\* associative, so the bytes are added by halves rather than left to right,
\* which keeps the evaluation shallow for 255 bytes.
wrapping_sum(bs, lo, hi) ==
    IF lo > hi THEN 0
    ELSE IF lo = hi THEN bs[lo] % 256
    ELSE LET mid == (lo + hi) \div 2 IN
         (wrapping_sum(bs, lo, mid) + wrapping_sum(bs, mid + 1, hi)) % 256

\* A checksum that keeps seven bits.
calculate_checksum_Low7(bs) == wrapping_sum(bs, 1, Len(bs)) % 128

calculate_checksum(bs) == wrapping_sum(bs, 1, Len(bs))

\* nom's IResult: Ok((rest, out)), Err(Incomplete(Needed)), Err(Error(e)),
\* Err(Failure(e)).
Ok(rest, o) == [variant |-> "Ok", rest |-> rest, out |-> o,
                kind |-> "none", needed |-> 0]
Incomplete(n) == [variant |-> "Incomplete", rest |-> <<>>, out |-> <<>>,
                  kind |-> "none", needed |-> n]
Error(k) == [variant |-> "Error", rest |-> <<>>, out |-> <<>>,
             kind |-> k, needed |-> 0]
Failure(k) == [variant |-> "Failure", rest |-> <<>>, out |-> <<>>,
               kind |-> k, needed |-> 0]

\* nom::bytes::streaming::tag of one byte.
tag(t, i) ==
    IF i = <<>> THEN Incomplete(1)
    ELSE IF i[1] = t THEN Ok(Tail(i), <<t>>)
    ELSE Error(NomTag)

\* nom::bytes::streaming::take.
take(n, i) ==
    IF Len(i) < n THEN Incomplete(n - Len(i))
    ELSE Ok(SubSeq(i, n + 1, Len(i)), SubSeq(i, 1, n))

\* nom::combinator::cut: an Error becomes a Failure, which alt does not
\* recover from.
cut(r) == IF r.variant = "Error" THEN Failure(r.kind) ELSE r

tag_short_start(i) == tag(SHORT_START, i)

tag_long_start(i) == tag(LONG_START, i)

\* A frame end that takes any byte.
tag_frame_end_Any(i) == IF i = <<>> THEN Incomplete(1) ELSE Ok(Tail(i), <<i[1]>>)

tag_frame_end(i) == tag(FRAME_END, i)

\* A checksummed_buf that does not compare.
checksummed_buf_Unchecked(n, i) ==
    LET t == take(n, i) IN
    IF t.variant # "Ok" THEN t
    ELSE Ok(t.rest, SubSeq(t.out, 1, Len(t.out) - 1))

\* cut(map_res(take(n), ..)): n bytes of which the last is the checksum of the
\* others.
checksummed_buf(n, i) ==
    LET t == take(n, i) IN
    IF t.variant # "Ok" THEN cut(t)
    ELSE LET l == Len(t.out) IN
         IF calculate_checksum(SubSeq(t.out, 1, l - 1)) # t.out[l]
           THEN cut(Error(MalformedChecksum))
           ELSE Ok(t.rest, SubSeq(t.out, 1, l - 1))

\* cut(map_res(take(2), ..)): the length, written twice.
length_value(i) ==
    LET t == take(2, i) IN
    IF t.variant # "Ok" THEN cut(t)
    ELSE IF t.out[1] # t.out[2]
           THEN cut(Error(InconsistentLengthValues))
           ELSE Ok(t.rest, t.out[1])

single(i) ==
    LET t == tag(SINGLE_CHAR, i) IN
    IF t.variant # "Ok" THEN t ELSE Ok(t.rest, Single)

\* tuple((tag_short_start, checksummed_buf(3), tag_frame_end))
short_frame(i) ==
    LET t1 == tag_short_start(i) IN
    IF t1.variant # "Ok" THEN t1 ELSE
    LET t2 == checksummed_buf(3, t1.rest) IN
    IF t2.variant # "Ok" THEN t2 ELSE
    LET t3 == tag_frame_end(t2.rest) IN
    IF t3.variant # "Ok" THEN t3 ELSE
    Ok(t3.rest, Short(t2.out[1], t2.out[2]))

\* A long_frame that builds a Long frame for every length from 3 on.
long_frame_NoControl(i) ==
    LET t1 == tag_long_start(i) IN
    IF t1.variant # "Ok" THEN t1 ELSE
    LET t2 == length_value(t1.rest) IN
    IF t2.variant # "Ok" THEN t2 ELSE
    LET length == t2.out
        t3 == tag_long_start(t2.rest)
    IN
    IF t3.variant # "Ok" THEN t3 ELSE
    LET t4 == checksummed_buf(length + 1, t3.rest) IN
    IF t4.variant # "Ok" THEN t4 ELSE
    LET t5 == tag_frame_end(t4.rest)
        buf == t4.out
    IN
    IF t5.variant # "Ok" THEN t5
    ELSE IF length < 3 THEN Failure(InconsistentLengthValues)
    ELSE Ok(t5.rest, Long(buf[1], buf[2], buf[3], SubSeq(buf, 4, Len(buf))))

\* The header, then the body, and only then the test of the length.
long_frame(i) ==
    LET t1 == tag_long_start(i) IN
    IF t1.variant # "Ok" THEN t1 ELSE
    LET t2 == length_value(t1.rest) IN
    IF t2.variant # "Ok" THEN t2 ELSE
    LET length == t2.out
        t3 == tag_long_start(t2.rest)
    IN
    IF t3.variant # "Ok" THEN t3 ELSE
    LET t4 == checksummed_buf(length + 1, t3.rest) IN
    IF t4.variant # "Ok" THEN t4 ELSE
    LET t5 == tag_frame_end(t4.rest)
        buf == t4.out
    IN
    IF t5.variant # "Ok" THEN t5
    ELSE IF length < 3 THEN Failure(InconsistentLengthValues)
    ELSE IF length = 3 THEN Ok(t5.rest, Control(buf[1], buf[2], buf[3]))
    ELSE Ok(t5.rest, Long(buf[1], buf[2], buf[3], SubSeq(buf, 4, Len(buf))))

\* alt((single, short_frame, long_frame)): the next parser is tried on an
\* Error only, and the last Error is the one returned.
parse_frame(i) ==
    LET r1 == single(i) IN
    IF r1.variant # "Error" THEN r1 ELSE
    LET r2 == short_frame(i) IN
    IF r2.variant # "Error" THEN r2 ELSE
    long_frame(i)

\* What Frame::try_parse returns.
Parsed(n, f) == [variant |-> "Ok", bytes_read |-> n, frame |-> f,
                 kind |-> "none", needed |-> 0]
NotAFrame(r) == [variant |-> r.variant, bytes_read |-> 0, frame |-> NoFrame,
                 kind |-> r.kind, needed |-> r.needed]

\* A try_parse that reports the whole input as read.
try_parse_ConsumeAll(bs) ==
    LET r == parse_frame(bs) IN
    IF r.variant = "Ok" THEN Parsed(Len(bs), r.out) ELSE NotAFrame(r)

\* Frame::try_parse: bytes_read is the offset of what the parser left.
try_parse(bs) ==
    LET r == parse_frame(bs) IN
    IF r.variant = "Ok" THEN Parsed(Len(bs) - Len(r.rest), r.out) ELSE NotAFrame(r)

\* A serializer that writes the data's length without the three header bytes.
to_bytes_DataLength(f) ==
    CASE f.kind = "Single" -> <<SINGLE_CHAR>>
      [] f.kind = "Short" ->
           <<SHORT_START, f.control, f.address,
             calculate_checksum(<<f.control, f.address>>), FRAME_END>>
      [] f.kind = "Control" ->
           <<LONG_START, 3, 3, LONG_START, f.control, f.address,
             f.control_information,
             calculate_checksum(<<f.control, f.address, f.control_information>>),
             FRAME_END>>
      [] f.kind = "Long" ->
           <<LONG_START, Len(f.data) % 256, Len(f.data) % 256, LONG_START,
             f.control, f.address, f.control_information>>
           \o f.data
           \o <<calculate_checksum(<<f.control, f.address, f.control_information>>
                                   \o f.data),
                FRAME_END>>

\* Frame::to_bytes: the bytes FrameIterator yields.  The length is written
\* `as u8`.
to_bytes(f) ==
    CASE f.kind = "Single" -> <<SINGLE_CHAR>>
      [] f.kind = "Short" ->
           <<SHORT_START, f.control, f.address,
             calculate_checksum(<<f.control, f.address>>), FRAME_END>>
      [] f.kind = "Control" ->
           <<LONG_START, 3, 3, LONG_START, f.control, f.address,
             f.control_information,
             calculate_checksum(<<f.control, f.address, f.control_information>>),
             FRAME_END>>
      [] f.kind = "Long" ->
           <<LONG_START, (Len(f.data) + 3) % 256, (Len(f.data) + 3) % 256,
             LONG_START, f.control, f.address, f.control_information>>
           \o f.data
           \o <<calculate_checksum(<<f.control, f.address, f.control_information>>
                                   \o f.data),
                FRAME_END>>

(***************************************************************************)
(* The library's functions applied to bounded inputs.                      *)
(***************************************************************************)
\* The longest data of the Long frames that are enumerated in full.
MaxData == 1

\* The longest byte string that is taken as it is.
MaxRaw == 6

\* The longest suffix appended behind a parsed frame.
MaxSuffix == 1

\* The byte values the data and the Short frames' fields are drawn from: the
\* four framing bytes, and the two ends of u8.
FieldBytes == {0, SHORT_START, FRAME_END, LONG_START, SINGLE_CHAR, 255}

\* The byte values the header fields of Control and Long frames are drawn from.
HeaderBytes == {0, LONG_START, 255}

\* The byte values of the byte strings taken as they are.
RawBytes == {0, SHORT_START, FRAME_END, LONG_START, SINGLE_CHAR}

SeqsUpTo(S, n) == UNION {[1..m -> S] : m \in 0..n}

\* Long frames at, and one past, the longest data the length byte can hold.
BigFrames == {Long(255, 255, 255, [j \in 1..n |-> 255]) : n \in {MaxU8Data, MaxU8Data + 1}}

Frames ==
    {Single}
    \cup {Short(c, a) : c \in FieldBytes, a \in FieldBytes}
    \cup {Control(c, a, ci) : c \in HeaderBytes, a \in HeaderBytes, ci \in HeaderBytes}
    \cup {Long(c, a, ci, d) : c \in HeaderBytes, a \in HeaderBytes, ci \in HeaderBytes,
                              d \in SeqsUpTo(FieldBytes, MaxData)}
    \cup BigFrames

RawInputs == SeqsUpTo(RawBytes, MaxRaw)

Suffixes == SeqsUpTo(RawBytes, MaxSuffix) \ {<<>>}

\* b with bit k inverted.
FlipBit(b, k) == IF (b \div (2 ^ k)) % 2 = 1 THEN b - 2 ^ k ELSE b + 2 ^ k

\* Either a frame to serialize, or a byte string to parse as it is.
ParserInit ==
    /\ MainInit
    /\ CodecIdle
    /\ outcome = NotParsed
    /\ prior = NotParsed
    /\ \/ /\ tx \in Frames
          /\ input = <<>>
          /\ made = [by |-> "none", at |-> 0]
          /\ stage = "frame"
       \/ /\ tx = NoFrame
          /\ input \in RawInputs
          /\ made = [by |-> "raw", at |-> 0]
          /\ stage = "ready"

\* frame.to_bytes()
Serialize ==
    /\ stage = "frame"
    /\ input' = to_bytes(tx)
    /\ made' = [by |-> "to_bytes", at |-> 0]
    /\ stage' = "ready"
    /\ UNCHANGED <<tx, outcome, prior, main_vars, codec_vars>>

\* One bit of one byte of a serialized frame is inverted.
Damage(j, k) ==
    /\ stage = "ready"
    /\ made.by = "to_bytes"
    /\ input' = [input EXCEPT ![j] = FlipBit(@, k)]
    /\ made' = [by |-> "flip", at |-> j]
    /\ UNCHANGED <<tx, stage, outcome, prior, main_vars, codec_vars>>

\* Frame::try_parse(input)
Parse ==
    /\ stage = "ready"
    /\ outcome' = try_parse(input)
    /\ stage' = "parsed"
    /\ UNCHANGED <<tx, input, made, prior, main_vars, codec_vars>>

\* The bytes read for a parsed frame are kept and other bytes put behind
\* them, to be parsed again.
AppendSuffix(s) ==
    /\ stage = "parsed"
    /\ outcome.variant = "Ok"
    /\ made.by # "extend"
    /\ prior' = outcome
    /\ input' = SubSeq(input, 1, outcome.bytes_read) \o s
    /\ made' = [by |-> "extend", at |-> outcome.bytes_read]
    /\ stage' = "ready"
    /\ outcome' = NotParsed
    /\ UNCHANGED <<tx, main_vars, codec_vars>>

ParserNext ==
    \/ Serialize
    \/ \E j \in 1..Len(input), k \in 0..7 : Damage(j, k)
    \/ Parse
    \/ \E s \in Suffixes : AppendSuffix(s)

ParserSpec == ParserInit /\ [][ParserNext]_vars

(***************************************************************************)
(* The framed codecs: MbusCodec of mbus-codec and of mbus-proxy.           *)
(***************************************************************************)
\* The most pieces a stream is put together from.
MaxPieces == 2

\* The frames that travel on the streams.
StreamFrames ==
    {Single, Short(REQ_UD2, HEATER_ADDR), Control(SND_NKE, HEATER_ADDR, 81),
     HeaterAnswer(Short(REQ_UD2, HEATER_ADDR))}

\* bs without its last byte.
Front(bs) == SubSeq(bs, 1, Len(bs) - 1)

\* The header of a long frame that announces the greatest length.
LongestHeader == <<LONG_START, 255, 255, LONG_START>>

\* What a stream is put together from: encoded frames, encoded frames that
\* lost their last byte, a byte that starts no frame, and the header of the
\* longest frame.
Pieces ==
    {to_bytes(f) : f \in StreamFrames}
    \cup {Front(to_bytes(f)) : f \in StreamFrames}
    \cup {<<0>>, LongestHeader}

RECURSIVE Streams(_)
Streams(n) ==
    IF n = 0 THEN {<<>>}
    ELSE {s \o p : s \in Streams(n - 1), p \in Pieces}

\* A framed stream before its first read.
CodecInit ==
    /\ MainInit
    /\ ParserIdle
    /\ codec \in {"mbus-codec", "mbus-proxy"}
    /\ stream \in Streams(MaxPieces)
    /\ arrived = 0
    /\ src = <<>>
    /\ needed_bytes = 0
    /\ is_readable = FALSE
    /\ yielded = <<>>
    /\ decode_error = "none"

\* The transport delivers the next len bytes, which are appended to src, and
\* the framed stream goes on to call decode.
Read(len) ==
    /\ codec # "idle"
    /\ ~is_readable
    /\ decode_error = "none"
    /\ src' = src \o SubSeq(stream, arrived + 1, arrived + len)
    /\ arrived' = arrived + len
    /\ is_readable' = TRUE
    /\ UNCHANGED <<codec, stream, needed_bytes, yielded, decode_error,
                   main_vars, parser_vars>>

\* A decode that keeps its hint when it returns a frame.
NeededAfterFrame_Stale(hint) == hint

\* self.needed_bytes = 0
NeededAfterFrame(hint) == 0

\* src.advance(bytes_read)
advance(bs, cnt) == SubSeq(bs, cnt + 1, Len(bs))

\* if src.len() < self.needed_bytes { return Ok(None) }
HintWithholds(len, hint) == len < hint

\* MbusCodec::decode of mbus-codec.
decode ==
    /\ codec = "mbus-codec"
    /\ is_readable
    /\ decode_error = "none"
    /\ IF HintWithholds(Len(src), needed_bytes)
         THEN /\ is_readable' = FALSE
              /\ UNCHANGED <<src, needed_bytes, yielded, decode_error>>
         ELSE
           LET r == try_parse(src) IN
           CASE r.variant = "Ok" ->
                  /\ src' = advance(src, r.bytes_read)
                  /\ needed_bytes' = NeededAfterFrame(needed_bytes)
                  /\ yielded' = Append(yielded, r.frame)
                  /\ UNCHANGED <<is_readable, decode_error>>
             [] r.variant = "Incomplete" ->
                  /\ needed_bytes' = r.needed
                  /\ is_readable' = FALSE
                  /\ UNCHANGED <<src, yielded, decode_error>>
             [] OTHER ->
                  /\ decode_error' = r.kind
                  /\ UNCHANGED <<src, needed_bytes, is_readable, yielded>>
    /\ UNCHANGED <<codec, stream, arrived, main_vars, parser_vars>>

\* MbusCodec::decode of mbus-proxy, which keeps no hint.
proxy_decode ==
    /\ codec = "mbus-proxy"
    /\ is_readable
    /\ decode_error = "none"
    /\ LET r == try_parse(src) IN
       CASE r.variant = "Ok" ->
              /\ src' = advance(src, r.bytes_read)
              /\ yielded' = Append(yielded, r.frame)
              /\ UNCHANGED <<is_readable, decode_error>>
         [] r.variant = "Incomplete" ->
              /\ is_readable' = FALSE
              /\ UNCHANGED <<src, yielded, decode_error>>
         [] OTHER ->
              /\ decode_error' = r.kind
              /\ UNCHANGED <<src, is_readable, yielded>>
    /\ UNCHANGED <<codec, stream, arrived, needed_bytes, main_vars, parser_vars>>

CodecNext ==
    \/ \E len \in 1..(Len(stream) - arrived) : Read(len)
    \/ decode
    \/ proxy_decode

CodecSpec == CodecInit /\ [][CodecNext]_vars

(***************************************************************************)
(* Claims.                                                                 *)
(***************************************************************************)
\* The frames written to the heater that forward_frame sent: all but the
\* first, which is main's startup SND_NKE.
Forwarded == 2..Len(out[heater])

\* The forwarded requests whose answer has not been read from the heater.
Outstanding == {i \in Forwarded : i \notin received}

\* C1: at-most-one-outstanding.  In every run of the supervisor loop the
\* number of requests forwarded to the heater whose reply has not yet been
\* received from the heater never exceeds one.
C1_AtMostOneOutstanding == Cardinality(Outstanding) <= 1

Other(p) == IF p = external_master THEN wmbusmeters ELSE external_master

\* C2: strict priority of event selection.  A call that starts with a frame
\* readable on external_master services external_master whatever else is
\* ready; a readable wmbusmeters frame beats heater and cancellation; a
\* readable heater frame beats cancellation.  The call takes an item from the
\* serviced port and from no other upstream port.  After a call that had a
\* frame pending on both upstream ports (and so serviced external_master),
\* the wmbusmeters frame is still pending and the next call services it
\* unless external_master has a new frame.
C2_StrictPriority ==
    step.branch # "none" =>
      /\ external_master \in step.ready => step.branch = external_master
      /\ (wmbusmeters \in step.ready /\ external_master \notin step.ready)
            => step.branch = wmbusmeters
      /\ (heater \in step.ready /\ step.ready \cap Upstream = {})
            => step.branch = heater
      /\ step.branch \in Ports =>
            /\ step.branch \in step.consumed
            /\ step.consumed \cap Upstream \subseteq {step.branch}
      /\ step.prevBoth =>
            /\ step.prevBranch = external_master
            /\ wmbusmeters \in step.ready
            /\ external_master \notin step.ready => step.branch = wmbusmeters

\* Two consecutive calls: both upstream ports had a request pending, the first
\* call serviced external_master and the second wmbusmeters, both answered.
C2_Witness ==
    /\ step.prevBoth
    /\ step.prevBranch = external_master
    /\ step.branch = wmbusmeters
    /\ step.result = "ok"
    /\ step.response # NoFrame
    /\ out[external_master] # <<>>

\* C3: no interleaving of replies.  From the moment a call has consumed a
\* request of an upstream peer it writes nothing to the other upstream peer,
\* and it writes at most one frame to the requesting peer: the reply, which is
\* the last frame on that peer's transport, after which the call returns.
C3_NoInterleaving ==
    \A p \in Upstream :
      step.branch = p =>
        /\ step.written[Other(p)] = <<>>
        /\ Len(step.written[p]) <= 1
        /\ step.written[p] # <<>> =>
              /\ step.result = "ok"
              /\ out[p] # <<>>
              /\ out[p][Len(out[p])] = step.written[p][1]

\* A wmbusmeters request was forwarded and the heater's frame written back to
\* wmbusmeters, after external_master had been written to as well.
C3_Witness ==
    /\ step.branch = wmbusmeters
    /\ step.response # NoFrame
    /\ step.written[wmbusmeters] = <<step.response>>
    /\ out[external_master] # <<>>

\* C4: a broadcast link-reset is absorbed.  A call that consumes
\* Short{SND_NKE, 0x00} from external_master or from wmbusmeters writes exactly
\* one Single frame to that port, nothing to the heater, nothing to the other
\* upstream port, takes nothing from the heater and returns success.
C4_BroadcastNkeAbsorbed ==
    (step.branch \in Upstream /\ step.frame = Short(SND_NKE, ZERO_ADDR)) =>
      /\ step.result = "ok"
      /\ step.written = [NoWrites EXCEPT ![step.branch] = <<Single>>]
      /\ step.consumed = {step.branch}

\* Both upstream peers have had their link-reset acknowledged, the heater has
\* only been sent main's startup frame.
C4_Witness ==
    /\ step.branch \in Upstream
    /\ step.frame = Short(SND_NKE, ZERO_ADDR)
    /\ out[external_master] = <<Single>>
    /\ out[wmbusmeters] = <<Single>>
    /\ Len(out[heater]) = 1

Addressed == {"Short", "Long", "Control"}

\* C5: master forward is verbatim.  For every frame f consumed from
\* external_master whose address is HEATER_ADDR, unless it is a Short SND_NKE,
\* the call writes exactly f to the heater, then writes to external_master
\* exactly the frame the heater returned, and writes nothing to wmbusmeters.
C5_MasterForwardVerbatim ==
    ( /\ step.branch = external_master
      /\ step.frame.kind \in Addressed
      /\ step.frame.address = HEATER_ADDR
      /\ ~(step.frame.kind = "Short" /\ step.frame.control = SND_NKE) ) =>
      /\ step.written[heater] = <<step.frame>>
      /\ step.written[wmbusmeters] = <<>>
      /\ step.result = "ok" =>
            step.response # NoFrame /\ step.written[external_master] = <<step.response>>

\* C5 as amended: the exception is every frame whose control byte is SND_NKE,
\* Short, Control or Long alike; such a frame is acknowledged with Single and
\* the heater is not written to.  The reply is written when the heater stream
\* yields a frame within the timeout, and nothing is written to
\* external_master otherwise.
C5_MasterForwardUnlessNke ==
    ( /\ step.branch = external_master
      /\ step.frame.kind \in Addressed
      /\ step.frame.address = HEATER_ADDR ) =>
      IF step.frame.control = SND_NKE
        THEN /\ step.written = [NoWrites EXCEPT ![external_master] = <<Single>>]
             /\ step.result = "ok"
        ELSE /\ step.written[heater] = <<step.frame>>
             /\ step.written[wmbusmeters] = <<>>
             /\ IF step.result = "ok"
                  THEN /\ step.response # NoFrame
                       /\ step.written[external_master] = <<step.response>>
                  ELSE step.written[external_master] = <<>>

\* A REQ_UD2 for the heater was forwarded and the heater's user data written
\* back to external_master.
C5_Witness ==
    /\ step.branch = external_master
    /\ step.frame = Short(REQ_UD2, HEATER_ADDR)
    /\ step.result = "ok"
    /\ step.response.kind = "Long"
    /\ step.written[external_master] = <<step.response>>

C7_UnknownSlaveDropped ==
    ( /\ step.branch = external_master
      /\ step.frame.kind \in Addressed
      /\ ~( /\ step.frame.kind = "Short"
            /\ step.frame.control = SND_NKE
            /\ step.frame.address \in {ZERO_ADDR, HEATER_ADDR} )
      /\ step.frame.address # HEATER_ADDR ) =>
      /\ step.written = NoWrites
      /\ step.result = "ok"

\* C7 as amended: the frames dropped are the Short, Control and Long frames
\* whose address is neither 0x00 nor 0x9A.  A frame addressed to 0x00 is
\* handled like one addressed to 0x9A (a REQ_UD2 to 0x00 is written to the
\* heater), and a Single frame makes the call return an error; neither is
\* answered by the call itself.
C7_UnknownAddressDropped ==
    step.branch = external_master =>
      /\ ( /\ step.frame.kind \in Addressed
           /\ step.frame.address \notin {ZERO_ADDR, HEATER_ADDR} ) =>
            /\ step.written = NoWrites
            /\ step.consumed = {external_master}
            /\ step.result = "ok"
      /\ step.frame = Short(REQ_UD2, ZERO_ADDR) =>
            step.written[heater] = <<step.frame>>
      /\ step.frame = Single =>
            step.written = NoWrites /\ step.result = "err"

\* external_master's request to 0xFD was dropped: nothing was ever written to
\* it, and the heater has only main's startup frame.
C7_Witness ==
    /\ step.branch = external_master
    /\ step.frame = Short(REQ_UD2, WMBUS_PROXY_ADDR)
    /\ step.result = "ok"
    /\ pc = "loop"
    /\ out[external_master] = <<>>
    /\ Len(out[heater]) = 1

\* C8: the cancellation event.  A call that starts with cancellation requested
\* and no frame readable on any port returns success, writes no frame to any
\* port and takes no frame from any port.
C8_CancelledReturnsOk ==
    (step.branch # "none" /\ step.ready = {"cancel"}) =>
      /\ step.branch = "cancel"
      /\ step.result = "ok"
      /\ step.written = NoWrites
      /\ step.consumed = {}
      /\ pc \in {"loop", "exit_ok"}

\* The token was cancelled while the call was pending in select! and the call
\* has returned.
C8_Witness ==
    /\ step.branch = "cancel"
    /\ step.ready = {"cancel"}
    /\ step.atCancel = "select"
    /\ step.result = "ok"

\* C9: cancellation during the heater-reply wait.  If the token is cancelled
\* while a call waits for the heater's reply, the wait ends without a reply
\* and without the timeout, and the call returns success.
C9_CancelEndsWait ==
    (step.atCancel = "wait" /\ step.result # "running") =>
      /\ step.result = "ok"
      /\ heater \notin step.consumed

\* C9 as amended: cancellation does not end the wait.  A call that was
\* waiting when the token was cancelled returns success only after it has
\* read a frame from the heater and written it to the origin; when it ends
\* without having read from the heater (the timeout, or the end of the
\* stream) it does not return success.
C9_CancelDoesNotEndWait ==
    step.atCancel = "wait" =>
      /\ step.result = "ok" =>
            /\ heater \in step.consumed
            /\ step.response # NoFrame
            /\ step.written[step.branch] = <<step.response>>
      /\ (step.result # "running" /\ heater \notin step.consumed) =>
            step.result \in {"err", "panic"}
      /\ step.result = "running" => pc = "wait"

\* The token was cancelled during the wait and the wait then ended by the
\* timeout.
C9_Witness ==
    /\ step.atCancel = "wait"
    /\ cancelled
    /\ step.result = "err"
    /\ heater \notin step.consumed
    /\ pc = "exit_err"

ProgramNext ==
    \/ Startup
    \/ LoopCheck
    \/ multiplex_single_op
    \/ forward_frame_response
    \/ forward_frame_timeout
    \/ forward_frame_eof

\* C10: shutdown on cancellation.  Once the token is cancelled the supervisor
\* starts no new call; the call in progress returns (it does not end any
\* other way), main can always take its next step until it has ended, and it
\* ends with success when the last call returned success.
C10_ShutdownOnCancel ==
    cancelled =>
      /\ pc \in {"select", "wait"} => step.atCancel \in {"select", "wait"}
      /\ step.atCancel \in {"select", "wait"} => step.result \in {"running", "ok", "err"}
      /\ pc # "panic"
      /\ Running => ENABLED ProgramNext
      /\ (~Running /\ step.result = "ok") => pc = "exit_ok"
      /\ pc = "exit_ok" => step.result \in {"ok", "running"}

\* A call that forwarded a request and whose wait for the heater's reply has
\* ended without a reply frame.
WaitFailed ==
    /\ step.branch \in Upstream
    /\ step.written[heater] # <<>>
    /\ step.response = NoFrame
    /\ pc # "wait"

\* The wait of the call ended by the timeout: nothing was read from the
\* heater.
TimedOut ==
    /\ WaitFailed
    /\ heater \notin step.consumed
    /\ step.result = OnTimeout

\* C11: unsolicited heater frames are non-fatal.  A call that consumes a frame
\* from the heater while no forwarded request is awaited (the heater's answer
\* to the startup SND_NKE included) writes nothing to any port and returns
\* success, so main keeps running.
C11_UnsolicitedHeaterFrameNonFatal ==
    (step.branch = heater /\ step.frame.kind \in {"Single"} \cup Addressed) =>
      /\ step.result = "ok"
      /\ step.written = NoWrites
      /\ pc \notin {"exit_err", "panic"}

\* C12: the failed heater wait.  When, after a request was forwarded, the
\* heater does not reply within the timeout, or its stream yields an error, or
\* its stream ends, the call returns an error value (the process does not
\* crash) and writes no frame to the origin.
C12_FailedWaitReturnsError ==
    WaitFailed =>
      /\ step.result = "err"
      /\ step.written[step.branch] = <<>>
      /\ pc # "panic"

\* C13: main survives a heater timeout.  After a call has returned the
\* timeout error main has not ended, as long as the token is not cancelled:
\* it is on its way to a further call.
C13_SupervisorSurvivesTimeout ==
    (TimedOut /\ ~cancelled) => Running

\* The frames a round trip is claimed for: Single, Short, Control, and Long
\* with 1 to 252 data bytes.
StructurallyValid(f) ==
    \/ f.kind \in {"Single", "Short", "Control"}
    \/ f.kind = "Long" /\ Len(f.data) \in 1..MaxU8Data

\* C14: round trip, frame to bytes to frame.  For every frame f that is
\* Single, Short, Control, or Long with 1 to 252 data bytes, parsing the bytes
\* the serializer produced returns the number of those bytes and f.
C14_RoundTripFrame ==
    (stage = "parsed" /\ made.by = "to_bytes" /\ StructurallyValid(tx)) =>
      outcome = Parsed(Len(input), tx)

\* A Long frame with 252 data bytes has been serialized and parsed back.
C14_Witness ==
    /\ stage = "parsed"
    /\ made.by = "to_bytes"
    /\ tx.kind = "Long"
    /\ Len(tx.data) = MaxU8Data
    /\ Len(input) = MaxU8Data + 9
    /\ outcome = Parsed(Len(input), tx)

\* C15: round trip, bytes to frame to bytes.  For every byte string on which
\* the parser succeeds with (n, f), serializing f yields exactly the first n
\* bytes of it.
C15_RoundTripBytes ==
    (stage = "parsed" /\ outcome.variant = "Ok") =>
      to_bytes(outcome.frame) = SubSeq(input, 1, outcome.bytes_read)

\* A byte string taken as it is parsed as a Short frame with bytes left over.
C15_Witness ==
    /\ stage = "parsed"
    /\ made.by = "raw"
    /\ outcome.variant = "Ok"
    /\ outcome.frame.kind = "Short"
    /\ outcome.bytes_read < Len(input)
    /\ to_bytes(outcome.frame) = SubSeq(input, 1, outcome.bytes_read)

\* C16: prefix safety.  For every byte string b with parse(b) = (n, f) and
\* every byte string s, parse(b[0..n] ++ s) = (n, f).
C16_PrefixSafety ==
    (stage = "parsed" /\ made.by = "extend") => outcome = prior

\* Bytes were put behind a parsed Long frame and the whole parsed again.
C16_Witness ==
    /\ stage = "parsed"
    /\ made.by = "extend"
    /\ prior.variant = "Ok"
    /\ prior.frame.kind = "Long"
    /\ Len(input) > prior.bytes_read
    /\ outcome = prior

RECURSIVE DecodeAll(_)
\* What decode, called again and again, returns when a buffer holds bs whole:
\* the frames, and the error that ends them if there is one.
DecodeAll(bs) ==
    LET r == try_parse(bs) IN
    IF r.variant = "Ok"
      THEN LET more == DecodeAll(advance(bs, r.bytes_read)) IN
           [frames |-> <<r.frame>> \o more.frames, error |-> more.error]
      ELSE [frames |-> <<>>,
            error |-> IF r.variant = "Incomplete" THEN "none" ELSE r.kind]

\* Decoding has gone as far as it can: decode has returned an error, or all
\* the bytes have arrived and decode has returned None.
CaughtUp ==
    \/ decode_error # "none"
    \/ arrived = Len(stream) /\ ~is_readable

\* C17: streaming monotonicity.  For every byte string, the framed codec
\* yields the same frames, and the same first error if any, whether the bytes
\* arrive one at a time, in chunks of any sizes, or all at once: at every
\* moment the frames yielded are the first of those of the whole string, and
\* they are all of them, with the same error, once decoding has gone as far
\* as it can.
C17_StreamingMonotonicity ==
    codec # "idle" =>
      LET all == DecodeAll(stream) IN
      /\ Len(yielded) <= Len(all.frames)
      /\ yielded = SubSeq(all.frames, 1, Len(yielded))
      /\ decode_error # "none" => decode_error = all.error
      /\ CaughtUp => (yielded = all.frames /\ decode_error = all.error)

\* The bytes come in several reads.  mbus-codec's decoder has yielded a Long
\* frame, has then been told how many bytes the next frame lacks, and has
\* skipped a call on that hint; the whole string holds two frames.
C17_Witness ==
    /\ codec = "mbus-codec"
    /\ arrived < Len(stream)
    /\ ~is_readable
    /\ Len(yielded) = 1
    /\ yielded[1].kind = "Long"
    /\ Len(src) = 2
    /\ needed_bytes = 3
    /\ Len(DecodeAll(stream).frames) = 2
    /\ yielded = SubSeq(DecodeAll(stream).frames, 1, 1)

\* C18: checksum sensitivity.  For every serialized Short, Control or Long
\* frame, inverting one bit of any byte but the final end byte makes the
\* parser return an error, MalformedChecksum, InconsistentLengthValues or
\* nom's tag error (the first byte, or the second start byte, is not
\* recognized); it returns no frame, neither the original nor another.
C18_ChecksumSensitivity ==
    (/\ stage = "parsed"
     /\ made.by = "flip"
     /\ made.at < Len(input)
     /\ tx.kind \in Addressed) =>
      /\ outcome.variant \in {"Error", "Failure"}
      /\ outcome.kind \in {MalformedChecksum, InconsistentLengthValues, NomTag}
      /\ outcome.frame = NoFrame

\* One bit of a data byte of a Long frame was inverted and the parser
\* answered MalformedChecksum.
C18_Witness ==
    /\ stage = "parsed"
    /\ made.by = "flip"
    /\ tx.kind = "Long"
    /\ Len(tx.data) = 1
    /\ made.at = 8
    /\ outcome.variant = "Failure"
    /\ outcome.kind = MalformedChecksum

\* The input starts a Long frame and holds its header: the start byte, the
\* two length bytes and one byte more.
HasLongHeader == Len(input) >= 4 /\ input[1] = LONG_START

\* C19: long-header validation.  For every input that starts with 0x68 and
\* has at least 4 bytes, if the two length bytes differ, or are equal and less
\* than 3, the parser returns InconsistentLengthValues, whatever follows and
\* however much of it is present: never Incomplete, MalformedChecksum or a
\* frame.
C19_LongHeaderValidation ==
    (/\ stage = "parsed"
     /\ HasLongHeader
     /\ (input[2] # input[3] \/ input[2] < 3)) =>
      /\ outcome.variant = "Failure"
      /\ outcome.kind = InconsistentLengthValues

\* The input holds all the bytes of a Short candidate: it starts with 0x10 and
\* has at least 5 bytes.
ShortCandidate == Len(input) >= 5 /\ input[1] = SHORT_START

\* The input holds all the bytes of a Long or Control candidate: a valid
\* header with length L, and at least 4 + L + 2 bytes.
LongCandidate ==
    /\ HasLongHeader
    /\ input[2] = input[3]
    /\ input[2] >= 3
    /\ input[4] = LONG_START
    /\ Len(input) >= 4 + input[2] + 2

\* The candidate's checksum byte is the checksum of the bytes it covers.
ChecksumByteOk ==
    IF ShortCandidate
      THEN input[4] = calculate_checksum(SubSeq(input, 2, 3))
      ELSE input[4 + input[2] + 1] = calculate_checksum(SubSeq(input, 5, 4 + input[2]))

\* The candidate's last byte is 0x16.
EndByteOk ==
    IF ShortCandidate
      THEN input[5] = FRAME_END
      ELSE input[4 + input[2] + 2] = FRAME_END

\* C20: the whole-frame check.  For every input that holds all the bytes of a
\* Short candidate or of a Long/Control candidate, if the checksum byte
\* differs from the recomputed checksum or the trailing end byte is not 0x16,
\* the parser returns MalformedChecksum.
C20_WholeFrameCheck ==
    (/\ stage = "parsed"
     /\ ShortCandidate \/ LongCandidate
     /\ ~ChecksumByteOk \/ ~EndByteOk) =>
      /\ outcome.variant = "Failure"
      /\ outcome.kind = MalformedChecksum

\* C20 as amended: the checksum is tested before the end byte, and a wrong
\* end byte is a tag error.  For every such input, if the checksum byte
\* differs from the recomputed checksum the parser returns MalformedChecksum
\* (whatever the end byte is); if the checksum byte is right and the trailing
\* end byte is not 0x16 the parser returns nom's Tag error, not
\* MalformedChecksum.  In neither case does it return a frame.
C20_ChecksumThenEndTag ==
    (/\ stage = "parsed"
     /\ ShortCandidate \/ LongCandidate) =>
      /\ ~ChecksumByteOk =>
            (outcome.variant = "Failure" /\ outcome.kind = MalformedChecksum)
      /\ (ChecksumByteOk /\ ~EndByteOk) =>
            (outcome.variant = "Error" /\ outcome.kind = NomTag)

\* A serialized Long frame whose end byte was damaged: the checksum is right,
\* the end byte is not 0x16, and the parser answered with the tag error.
C20_Witness ==
    /\ stage = "parsed"
    /\ made.by = "flip"
    /\ made.at = Len(input)
    /\ LongCandidate
    /\ input[2] > 3
    /\ ChecksumByteOk
    /\ ~EndByteOk
    /\ outcome.variant = "Error"
    /\ outcome.kind = NomTag

\* C21: Long frames with more than 252 data bytes are rejected.  No Long frame
\* whose data is longer than 252 bytes is built and serialized, and the
\* serializer never writes a length byte that differs from |data| + 3.
C21_LongDataBounded ==
    (stage \in {"ready", "parsed"} /\ made.by = "to_bytes" /\ tx.kind = "Long") =>
      /\ Len(tx.data) <= MaxU8Data
      /\ input[2] = Len(tx.data) + 3
      /\ input[3] = Len(tx.data) + 3

\* The Control frame with the header fields of f.
AsControl(f) == Control(f.control, f.address, f.control_information)

\* C25: a Long frame with empty data is a Control frame on the wire.  For all
\* control, address and control_information bytes, Long with data = []
\* serializes to the same 9 bytes as Control with the same three fields, and
\* parsing those bytes returns the Control frame, not the Long frame.
C25_EmptyLongIsControl ==
    (/\ stage \in {"ready", "parsed"}
     /\ made.by = "to_bytes"
     /\ tx.kind = "Long"
     /\ tx.data = <<>>) =>
      /\ Len(input) = 9
      /\ input = to_bytes(AsControl(tx))
      /\ stage = "parsed" =>
            /\ outcome = Parsed(9, AsControl(tx))
            /\ outcome.frame # tx

\* A Long frame with empty data was serialized and parsed back as a Control
\* frame.
C25_Witness ==
    /\ stage = "parsed"
    /\ made.by = "to_bytes"
    /\ tx.kind = "Long"
    /\ tx.data = <<>>
    /\ tx.control = 255
    /\ outcome.variant = "Ok"
    /\ outcome.frame.kind = "Control"
    /\ outcome.frame.control = 255

\* C22: the needed_bytes hint is sound.  Whenever the test of the hint makes
\* decode return "no frame yet" without parsing, parsing the read buffer
\* would return Incomplete: the hint withholds no frame that is completely
\* buffered and hides no parse error, whatever reads and decodes came before.
C22_HintSound ==
    (codec = "mbus-codec" /\ HintWithholds(Len(src), needed_bytes)) =>
        try_parse(src).variant = "Incomplete"

\* decode is about to return without parsing: bytes of a second frame were
\* read after the first was yielded, fewer than the hint asks for.
C22_Witness ==
    /\ codec = "mbus-codec"
    /\ is_readable
    /\ decode_error = "none"
    /\ Len(yielded) = 1
    /\ Len(src) > 0
    /\ Len(src) < needed_bytes

\* The size of the largest frame: 252 data bytes and 9 bytes around them.
MaxFrameSize == MaxU8Data + 9

\* C23: in every reachable state of the framed codec needed_bytes is at most
\* 261, the size of the largest frame, and needed_bytes is 0 right after every
\* decode that yields a frame.
C23_HintBounded ==
    /\ [](needed_bytes <= MaxFrameSize)
    /\ [][(codec = "mbus-codec" /\ Len(yielded') > Len(yielded))
            => needed_bytes' = 0]_vars

\* decode has just yielded a frame and reset the hint, and the header of the
\* longest frame is what is left in the read buffer.
C23_Witness ==
    /\ codec = "mbus-codec"
    /\ is_readable
    /\ Len(yielded) = 1
    /\ needed_bytes = 0
    /\ src = LongestHeader

\* C24: response pairing.  The frame that a forwarding step writes to the
\* origin peer is the heater's response to the request this same step sent,
\* the last frame written to the heater: never a frame the heater emitted in
\* response to the startup SND_NKE or to an earlier forwarded request.
C24_ResponsePairing ==
    (step.result = "ok" /\ step.response # NoFrame) =>
        Len(out[heater]) \in received
=============================================================================
